---- MODULE Spec2Model ----
(***************************************************************************)
(* The LLM summarizer processor (src/main.go): main, handleLambda,         *)
(* runProcessor and generatePDF as a state machine.                        *)
(*                                                                         *)
(* Strings the program takes apart or builds (directory and file names,    *)
(* paths) are sequences of one-character strings, so that filepath.Base,   *)
(* filepath.Ext, strings.TrimSuffix and filepath.Join are computed the way *)
(* the code computes them.  Strings the program only compares or passes    *)
(* on (environment values, summaries, file bytes) are TLA+ strings.        *)
(***************************************************************************)
EXTENDS Integers, Sequences, FiniteSets, TLC

(***************************************************************************)
(* Bounds of the model.                                                    *)
(***************************************************************************)
\* Event invocations one Lambda process serves before the model stops it.
MaxRuns == 2
\* Last minute of the wall clock (time.Now, formatted to the minute).
MaxTime == 1

(***************************************************************************)
(* String helpers: the Go library functions runProcessor calls.            *)
(***************************************************************************)
\* Bytes that occur in the names of the model, in byte order (sort.Strings
\* inside filepath.Glob compares bytewise).
ByteOrder == <<"-", ".", "/", "[", "a", "b", "d", "e", "f", "i", "j", "k",
               "m", "n", "o", "p", "r", "s", "t", "u", "x", "y">>

Ord(c) == CHOOSE i \in 1..Len(ByteOrder) : ByteOrder[i] = c

\* s < t in Go's string order.
StrLess(s, t) ==
    \E i \in 1..(Len(t)) :
        /\ \A j \in 1..(i - 1) : j <= Len(s) /\ s[j] = t[j]
        /\ \/ i = Len(s) + 1
           \/ i <= Len(s) /\ Ord(s[i]) < Ord(t[i])

\* strings.HasSuffix
HasSuffix(s, suf) ==
    /\ Len(s) >= Len(suf)
    /\ SubSeq(s, Len(s) - Len(suf) + 1, Len(s)) = suf

\* strings.TrimSuffix
TrimSuffix(s, suf) ==
    IF HasSuffix(s, suf) THEN SubSeq(s, 1, Len(s) - Len(suf)) ELSE s

\* Index of the last occurrence of byte c in s, 0 when there is none.
LastIndex(s, c) ==
    LET I == {i \in 1..Len(s) : s[i] = c}
    IN  IF I = {} THEN 0 ELSE CHOOSE i \in I : \A j \in I : j <= i

\* filepath.Base for a path without trailing separators: the last element.
Base(path) ==
    IF path = <<>> THEN <<".">>
    ELSE SubSeq(path, LastIndex(path, "/") + 1, Len(path))

\* filepath.Ext: the suffix beginning at the final dot in the final element
\* of path; empty if there is no dot.
Ext(path) ==
    LET d == LastIndex(path, ".")
    IN  IF d = 0 \/ d < LastIndex(path, "/") THEN <<>>
        ELSE SubSeq(path, d, Len(path))

\* filepath.Join of two elements: empty elements are ignored, the rest are
\* joined by one separator.
Join(dir, elem) ==
    IF dir = <<>> THEN elem
    ELSE IF elem = <<>> THEN dir
    ELSE IF dir[Len(dir)] = "/" THEN dir \o elem
    ELSE dir \o <<"/">> \o elem

\* filepath.Dir for the paths Join builds here.
DirOf(path) ==
    LET s == LastIndex(path, "/")
    IN  IF s <= 1 THEN SubSeq(path, 1, s) ELSE SubSeq(path, 1, s - 1)

\* The elements of set S of strings as a sequence in ascending order.
RECURSIVE SortStrings(_)
SortStrings(S) ==
    IF S = {} THEN <<>>
    ELSE LET m == CHOOSE x \in S : \A y \in S \ {x} : StrLess(x, y)
         IN  <<m>> \o SortStrings(S \ {m})

(***************************************************************************)
(* Names and values of the model.                                          *)
(***************************************************************************)
JsonSuffix == <<".", "j", "s", "o", "n">>
SummarySuffix == <<"-", "s", "u", "m", "m", "a", "r", "y", ".", "p", "d", "f">>

\* The directory that holds the input files, the directory reports go to.
InPath == <<"/", "i", "n">>
OutPath == <<"/", "o", "u", "t">>
\* A directory name that is a malformed glob pattern.
BadPath == <<"/", "i", "n", "[">>

\* Entries the input directory may hold that match *.json ...
JsonNames == { <<"a">> \o JsonSuffix,
               <<"a", ".", "b">> \o JsonSuffix,
               JsonSuffix }
\* ... and entries it always holds that do not.
OtherNames == { <<"n", "o", "t", "e", "s", ".", "t", "x", "t">>,
                <<"j", "s", "o", "n">> }

GoodBytes == "{\"patients\": [], \"records\": 2}"
BadBytes == "{\"a\":"
\* What os.ReadFile meets at an entry: bytes, or an error (a directory, a
\* file without read permission).
FileStates == { [readable |-> TRUE,  bytes |-> GoodBytes],
                [readable |-> TRUE,  bytes |-> BadBytes],
                [readable |-> FALSE, bytes |-> ""] }

\* json.Unmarshal(data, &parsed) returns nil.
JSONValid(bytes) == bytes \in {GoodBytes, "[1, 2]", "null"}

Summaries == {"summary one", "summary two"}
\* What gov.Invoke returns: a response, a governor error of one of three
\* classes, or another error.
InvokeErrors == {"budget_exceeded", "model_not_allowed", "governor_other", "other"}
\* What pdf.OutputFileAndClose does: writes the file; fails before the file
\* is created (an earlier layout error, os.Create fails); or fails while
\* writing, after os.Create has created or truncated the file.
RenderOutcomes == {"ok", "fail_nofile", "fail_partial"}

\* The value EXECUTION_RUN_ID has when the process starts.
InitialRunID == "run-env"

NoCfg == [inputDir |-> <<>>, outputDir |-> <<>>, executionRunID |-> ""]
NoGov == [function |-> "", runID |-> ""]
NoEvent == [InputDir |-> <<>>, OutputDir |-> <<>>, ExecutionRunID |-> ""]

VARIABLES
    env,        \* the process environment (os.Getenv / os.Setenv)
    dir,        \* the input directory: entry name -> what ReadFile meets
    out,        \* the files under the output directory: path -> content
    now,        \* the wall clock, in minutes
    mode,       \* "none" before main has decided, then "direct" or "event"
    pc,         \* where the process is
    cfg,        \* runProcessor's parameters
    gov,        \* the governor client of the current run
    jsonFiles,  \* the listing filepath.Glob returned
    idx,        \* position of the loop in jsonFiles
    data,       \* bytes of the file read last
    summary,    \* resp.Text() of the last response
    fatal,      \* which log.Fatal ended the process, "" if none
    event,      \* the payload handleLambda was called with last
    runs,       \* runs started by this process
    calls       \* the calls the current run has made, in order

vars == <<env, dir, out, now, mode, pc, cfg, gov, jsonFiles, idx, data,
          summary, fatal, event, runs, calls>>

(***************************************************************************)
(* The initial state: the process has been started, main has not run.      *)
(***************************************************************************)
EnvDirsIn == {<<>>, InPath, BadPath}
EnvDirsOut == {<<>>, OutPath}

Init ==
    /\ env \in [AWS_LAMBDA_RUNTIME_API : {"", "127.0.0.1:9001"},
                INPUT_DIR : EnvDirsIn,
                OUTPUT_DIR : EnvDirsOut,
                EXECUTION_RUN_ID : {InitialRunID},
                LLM_GOVERNOR_FUNCTION : {"", "arn:llm-governor"}]
    \* under the Lambda runtime the directories come with the event: the
    \* two variables are both unset, or both set
    /\ env.AWS_LAMBDA_RUNTIME_API # "" =>
          \/ env.INPUT_DIR = <<>> /\ env.OUTPUT_DIR = <<>>
          \/ env.INPUT_DIR = InPath /\ env.OUTPUT_DIR = OutPath
    /\ \E S \in SUBSET JsonNames :
         \E f \in [S -> FileStates] :
            dir = [n \in S \cup OtherNames |->
                      IF n \in S THEN f[n]
                      ELSE [readable |-> TRUE, bytes |-> GoodBytes]]
    /\ out = << >>
    /\ now = 0
    /\ mode = "none"
    /\ pc = "main"
    /\ cfg = NoCfg
    /\ gov = NoGov
    /\ jsonFiles = <<>>
    /\ idx = 0
    /\ data = ""
    /\ summary = ""
    /\ fatal = ""
    /\ event = NoEvent
    /\ runs = 0
    /\ calls = <<>>

(***************************************************************************)
(* Collaborators: the file system, the governor, the PDF library.          *)
(***************************************************************************)
\* filepath.Match reports ErrBadPattern: a "[" that no "]" closes.
BadPattern(pattern) ==
    \E i \in 1..Len(pattern) :
        /\ pattern[i] = "["
        /\ ~ \E j \in (i + 1)..Len(pattern) : pattern[j] = "]"

\* The names of the entries of directory d: the input files if d is the
\* input directory, and the files written there.
Entries(d) ==
    (IF d = InPath THEN DOMAIN dir ELSE {})
        \cup {Base(p) : p \in {q \in DOMAIN out : DirOf(q) = d}}

\* The paths pattern dir/*.json matches: "*" stands for any run of bytes
\* of one path element.
Matches(d) ==
    {Join(d, n) : n \in {e \in Entries(d) : HasSuffix(e, JsonSuffix)}}

\* filepath.Glob(filepath.Join(inputDir, "*.json")): the matching paths in
\* ascending order, or the pattern error.
Glob(inputDir) ==
    LET pattern == Join(inputDir, <<"*">> \o JsonSuffix)
    IN  IF BadPattern(pattern)
        THEN [err |-> TRUE, files |-> <<>>]
        ELSE [err |-> FALSE, files |-> SortStrings(Matches(DirOf(pattern)))]

\* Variant of Setenv: the environment is left as it is.
SetenvDropped(e, key, value) == e

\* os.Setenv(key, value) on environment e.
Setenv(e, key, value) == [e EXCEPT ![key] = value]

\* llm.NewGovernor(): the client reads its function and run id from the
\* environment.
NewGovernor ==
    [function |-> env.LLM_GOVERNOR_FUNCTION, runID |-> env.EXECUTION_RUN_ID]

\* gov.Available()
Available(g) == g.function # ""

\* Variant of BaseName: the name is cut at its first dot, not its last.
BaseNameFirstDot(jsonFile) ==
    LET b == Base(jsonFile)
        D == {i \in 1..Len(b) : b[i] = "."}
    IN  IF D = {} THEN b
        ELSE SubSeq(b, 1, (CHOOSE i \in D : \A j \in D : i <= j) - 1)

\* baseName := strings.TrimSuffix(filepath.Base(jsonFile), filepath.Ext(jsonFile))
BaseName(jsonFile) == TrimSuffix(Base(jsonFile), Ext(jsonFile))

\* Variant of PdfPath: the base name is left out of the report's name.
PdfPathNoBase(outputDir, jsonFile) ==
    Join(outputDir, SummarySuffix)

\* pdfPath := filepath.Join(outputDir, baseName+"-summary.pdf")
PdfPath(outputDir, jsonFile) ==
    Join(outputDir, BaseName(jsonFile) \o SummarySuffix)

\* files with path p bound to file r (os.Create creates or truncates).
WriteFile(files, p, r) ==
    [q \in DOMAIN files \cup {p} |-> IF q = p THEN r ELSE files[q]]

\* Variant of GeneratePDF: an existing file is appended to, not truncated.
GeneratePDFAppend(path, title, body, t, outcome) ==
    LET old == IF path \in DOMAIN out THEN out[path].body ELSE ""
    IN  CASE outcome = "ok" ->
                [files |-> WriteFile(out, path,
                              [title |-> title, body |-> old \o body, stamp |-> t,
                               whole |-> TRUE, run |-> runs]),
                 err |-> FALSE]
          [] outcome = "fail_partial" ->
                [files |-> WriteFile(out, path,
                              [title |-> <<>>, body |-> old, stamp |-> t,
                               whole |-> FALSE, run |-> runs]),
                 err |-> TRUE]
          [] OTHER -> [files |-> out, err |-> TRUE]

\* generatePDF(path, title, body) at minute t, the library ending as
\* outcome says: the files afterwards and the error returned.  The report
\* holds the title line, the generation time and the body.
GeneratePDF(path, title, body, t, outcome) ==
    CASE outcome = "ok" ->
            [files |-> WriteFile(out, path,
                          [title |-> title, body |-> body, stamp |-> t,
                           whole |-> TRUE, run |-> runs]),
             err |-> FALSE]
      [] outcome = "fail_partial" ->
            [files |-> WriteFile(out, path,
                          [title |-> <<>>, body |-> "", stamp |-> t,
                           whole |-> FALSE, run |-> runs]),
             err |-> TRUE]
      [] OTHER -> [files |-> out, err |-> TRUE]

(***************************************************************************)
(* The program.                                                            *)
(***************************************************************************)
\* log.Fatal / log.Fatalf: the message is logged and the process exits
\* with status 1.
Fatal(kind) ==
    /\ pc' = "exited"
    /\ fatal' = kind

\* A call the run made: the operation, the path it was about, whether it
\* succeeded, the text it returned or wrote, and, for generatePDF, the body
\* of the report the path held before ("" for other calls, "-" for none).
Call(op, file, ok, text, old) ==
    [op |-> op, file |-> file, ok |-> ok, text |-> text, old |-> old]

\* Variant of EntryMode: the marker is not looked at.
EntryModeDirect(marker) == "direct"

\* The entry mode main selects from the runtime marker.
EntryMode(marker) == IF marker # "" THEN "event" ELSE "direct"

\* main: in event mode lambda.Start waits for invocations, in direct mode
\* runProcessor is called with the environment's values.
Main ==
    /\ pc = "main"
    /\ mode' = EntryMode(env.AWS_LAMBDA_RUNTIME_API)
    /\ IF mode' = "event"
       THEN /\ pc' = "idle"
            /\ UNCHANGED <<cfg, runs, calls>>
       ELSE /\ pc' = "run"
            /\ cfg' = [inputDir |-> env.INPUT_DIR,
                       outputDir |-> env.OUTPUT_DIR,
                       executionRunID |-> env.EXECUTION_RUN_ID]
            /\ runs' = runs + 1
            /\ calls' = <<Call("runProcessor", env.INPUT_DIR, TRUE,
                              env.EXECUTION_RUN_ID, "")>>
    /\ UNCHANGED <<env, dir, out, now, gov, jsonFiles, idx, data, summary,
                   fatal, event>>

\* The event payloads the orchestrator may send.
Events ==
    [InputDir : {<<>>, InPath, OutPath, BadPath},
     OutputDir : {<<>>, OutPath},
     ExecutionRunID : {"run-1", "run-2"}]

\* The parameters handleLambda passes to runProcessor.
LambdaArgs(ev) ==
    [inputDir |-> ev.InputDir,
     outputDir |-> ev.OutputDir,
     executionRunID |-> ev.ExecutionRunID]

\* handleLambda up to its call of runProcessor.
HandleLambda ==
    /\ pc = "idle"
    /\ runs < MaxRuns
    /\ \E ev \in Events :
         /\ event' = ev
         /\ env' = Setenv(env, "EXECUTION_RUN_ID", ev.ExecutionRunID)
         /\ cfg' = LambdaArgs(ev)
         /\ calls' = <<Call("runProcessor", cfg'.inputDir, TRUE,
                           cfg'.executionRunID, "")>>
    /\ pc' = "run"
    /\ runs' = runs + 1
    \* runProcessor's locals are fresh in every call
    /\ gov' = NoGov
    /\ jsonFiles' = <<>>
    /\ idx' = 0
    /\ data' = ""
    /\ summary' = ""
    /\ UNCHANGED <<dir, out, now, mode, fatal>>

\* Variant of SetupFatal: an empty listing is not an error.
SetupFatalEmptyOk(inputDir, outputDir, g, l) ==
    IF inputDir = <<>> \/ outputDir = <<>> THEN "config"
    ELSE IF ~ Available(g) THEN "governor_unavailable"
    ELSE IF l.err THEN "list"
    ELSE ""

\* The log.Fatal runProcessor ends with before its loop, "" if none: the
\* configuration check, the governor's availability, the listing l.
SetupFatal(inputDir, outputDir, g, l) ==
    IF inputDir = <<>> \/ outputDir = <<>> THEN "config"
    ELSE IF ~ Available(g) THEN "governor_unavailable"
    ELSE IF l.err THEN "list"
    ELSE IF Len(l.files) = 0 THEN "no_json_files"
    ELSE ""

\* runProcessor up to the loop.
RunProcessor ==
    /\ pc = "run"
    /\ LET g == NewGovernor
           l == Glob(cfg.inputDir)
           f == SetupFatal(cfg.inputDir, cfg.outputDir, g, l)
       IN  IF f # ""
           THEN /\ Fatal(f)
                /\ gov' = IF f = "config" THEN gov ELSE g
                /\ UNCHANGED <<jsonFiles, idx>>
           ELSE /\ gov' = g
                /\ jsonFiles' = l.files
                /\ idx' = 1
                /\ pc' = "read"
                /\ UNCHANGED fatal
    /\ UNCHANGED <<env, dir, out, now, mode, cfg, data, summary, event, runs,
                   calls>>

\* The loop's os.ReadFile(jsonFile).
ReadFile ==
    /\ pc = "read"
    /\ idx <= Len(jsonFiles)
    /\ LET jsonFile == jsonFiles[idx]
           file     == dir[Base(jsonFile)]
       IN  /\ calls' = Append(calls, Call("ReadFile", jsonFile, file.readable, "", ""))
           /\ IF file.readable
              THEN data' = file.bytes /\ pc' = "unmarshal" /\ UNCHANGED fatal
              ELSE Fatal("read") /\ UNCHANGED data
    /\ UNCHANGED <<env, dir, out, now, mode, cfg, gov, jsonFiles, idx,
                   summary, event, runs>>

\* Variant of Unmarshal: the error is logged and the loop goes on.
UnmarshalUnchecked ==
    /\ pc = "unmarshal"
    /\ calls' = Append(calls, Call("Unmarshal", jsonFiles[idx],
                               JSONValid(data), "", ""))
    /\ pc' = "invoke"
    /\ UNCHANGED <<env, dir, out, now, mode, cfg, gov, jsonFiles, idx, data,
                   summary, fatal, event, runs>>

\* The loop's json.Unmarshal(data, &parsed).
Unmarshal ==
    /\ pc = "unmarshal"
    /\ calls' = Append(calls, Call("Unmarshal", jsonFiles[idx],
                               JSONValid(data), "", ""))
    /\ IF JSONValid(data)
       THEN pc' = "invoke" /\ UNCHANGED fatal
       ELSE Fatal("invalid_json")
    /\ UNCHANGED <<env, dir, out, now, mode, cfg, gov, jsonFiles, idx, data,
                   summary, event, runs>>

\* The log.Fatalf the loop answers an Invoke error with.
InvokeFatal(e) ==
    CASE e = "budget_exceeded"   -> "budget_exceeded"
      [] e = "model_not_allowed" -> "model_not_allowed"
      [] e = "governor_other"    -> "governor_error"
      [] OTHER                   -> "invoke_failed"

\* Variant of Invoke: a budget-exceeded error is logged and the loop goes on
\* to the next file.
InvokeBudgetSkips ==
    /\ pc = "invoke"
    /\ \/ \E s \in Summaries :
            /\ calls' = Append(calls, Call("Invoke", jsonFiles[idx], TRUE, s, ""))
            /\ summary' = s
            /\ pc' = "render"
            /\ UNCHANGED <<fatal, idx>>
       \/ \E e \in InvokeErrors :
            /\ calls' = Append(calls, Call("Invoke", jsonFiles[idx], FALSE, e, ""))
            /\ IF e = "budget_exceeded"
               THEN /\ UNCHANGED fatal
                    /\ idx' = idx + 1
                    /\ pc' = "read"
               ELSE Fatal(InvokeFatal(e)) /\ UNCHANGED idx
            /\ UNCHANGED summary
    /\ UNCHANGED <<env, dir, out, now, mode, cfg, gov, jsonFiles, data,
                   event, runs>>

\* Variant of Invoke: an error that is not the governor's is retried once.
InvokeRetries ==
    /\ pc = "invoke"
    /\ \/ \E s \in Summaries :
            /\ calls' = Append(calls, Call("Invoke", jsonFiles[idx], TRUE, s, ""))
            /\ summary' = s
            /\ pc' = "render"
            /\ UNCHANGED fatal
       \/ \E e \in InvokeErrors :
            /\ calls' = Append(calls, Call("Invoke", jsonFiles[idx], FALSE, e, ""))
            /\ IF e = "other" /\ calls[Len(calls)].op # "Invoke"
               THEN UNCHANGED <<pc, fatal>>
               ELSE Fatal(InvokeFatal(e))
            /\ UNCHANGED summary
    /\ UNCHANGED <<env, dir, out, now, mode, cfg, gov, jsonFiles, idx, data,
                   event, runs>>

\* The loop's gov.Invoke and the handling of its error.
Invoke ==
    /\ pc = "invoke"
    /\ \/ \E s \in Summaries :
            /\ calls' = Append(calls, Call("Invoke", jsonFiles[idx], TRUE, s, ""))
            /\ summary' = s
            /\ pc' = "render"
            /\ UNCHANGED fatal
       \/ \E e \in InvokeErrors :
            /\ calls' = Append(calls, Call("Invoke", jsonFiles[idx], FALSE, e, ""))
            /\ Fatal(InvokeFatal(e))
            /\ UNCHANGED summary
    /\ UNCHANGED <<env, dir, out, now, mode, cfg, gov, jsonFiles, idx, data,
                   event, runs>>

\* The loop's generatePDF call and the end of the iteration.
Render ==
    /\ pc = "render"
    /\ \E t \in now..MaxTime, outcome \in RenderOutcomes :
         LET jsonFile == jsonFiles[idx]
             baseName == BaseName(jsonFile)
             pdfPath  == PdfPath(cfg.outputDir, jsonFile)
             r        == GeneratePDF(pdfPath, baseName, summary, t, outcome)
         IN  /\ now' = t
             /\ out' = r.files
             /\ calls' = Append(calls, Call("generatePDF", pdfPath, ~ r.err,
                   summary,
                   IF pdfPath \in DOMAIN out THEN out[pdfPath].body ELSE "-"))
             /\ IF r.err
                THEN Fatal("pdf") /\ UNCHANGED idx
                ELSE idx' = idx + 1 /\ pc' = "read" /\ UNCHANGED fatal
    /\ UNCHANGED <<env, dir, mode, cfg, gov, jsonFiles, data, summary, event,
                   runs>>

\* The loop is over: runProcessor returns.  main then returns (exit status
\* 0); handleLambda returns nil and the runtime waits for the next event.
Complete ==
    /\ pc = "read"
    /\ idx > Len(jsonFiles)
    /\ pc' = IF mode = "event" THEN "idle" ELSE "exited"
    /\ calls' = Append(calls, Call("complete", <<>>, TRUE, "", ""))
    /\ UNCHANGED <<env, dir, out, now, mode, cfg, gov, jsonFiles, idx, data,
                   summary, fatal, event, runs>>

Next ==
    \/ Main
    \/ HandleLambda
    \/ RunProcessor
    \/ ReadFile
    \/ Unmarshal
    \/ Invoke
    \/ Render
    \/ Complete

Spec == Init /\ [][Next]_vars

(***************************************************************************)
(* The earlier main (src/unnamed/part_001): direct invocation only, the    *)
(* JSON sent as pretty-printed text inside the prompt.  Its configuration  *)
(* check, listing and loop are statement for statement those of            *)
(* runProcessor (json.MarshalIndent of a value json.Unmarshal has just     *)
(* produced does not fail), so the same actions model them.                *)
(***************************************************************************)
\* main up to the configuration check: the parameters are the environment's.
MainInline ==
    /\ pc = "main"
    /\ mode' = "direct"
    /\ pc' = "run"
    /\ cfg' = [inputDir |-> env.INPUT_DIR,
               outputDir |-> env.OUTPUT_DIR,
               executionRunID |-> env.EXECUTION_RUN_ID]
    /\ runs' = runs + 1
    /\ calls' = <<Call("runProcessor", env.INPUT_DIR, TRUE,
                      env.EXECUTION_RUN_ID, "")>>
    /\ UNCHANGED <<env, dir, out, now, gov, jsonFiles, idx, data, summary,
                   fatal, event>>

NextInline ==
    \/ MainInline
    \/ RunProcessor
    \/ ReadFile
    \/ Unmarshal
    \/ Invoke
    \/ Render
    \/ Complete

SpecInline == Init /\ [][NextInline]_vars

(***************************************************************************)
(* Vocabulary of the properties.                                           *)
(***************************************************************************)
InLoop == pc \in {"read", "unmarshal", "invoke", "render"}

\* A run has been started and has ended: the process has exited, or the
\* handler has returned and the runtime waits for the next event.
RunOver == pc = "exited" \/ (pc = "idle" /\ runs > 0)

\* The run reached "LLM Summarizer Processor complete".
RunComplete == RunOver /\ fatal = "" /\ calls[Len(calls)].op = "complete"

\* The files the current run created or overwrote, whole or truncated.
Written == {p \in DOMAIN out : out[p].run = runs}

\* The reports the current run wrote in full.
Reports == {p \in Written : out[p].whole}

CallsOf(op) == {i \in 1..Len(calls) : calls[i].op = op}

\* The *.json paths of the current run's input directory.
ListingSet == IF cfg.inputDir = <<>> THEN {} ELSE Matches(cfg.inputDir)

\* Every listed file is readable and holds well-formed JSON.
AllValid ==
    \A f \in ListingSet :
        dir[Base(f)].readable /\ JSONValid(dir[Base(f)].bytes)

\* The gateway has answered every call of the run and the renderer has
\* not failed.
NoCallFailed ==
    \A i \in CallsOf("Invoke") \cup CallsOf("generatePDF") : calls[i].ok

\* The run wrote one whole report per listed file, at
\* outputDir/X-summary.pdf, and nothing else.
OneReportPerInput ==
    /\ Written = {PdfPath(cfg.outputDir, f) : f \in ListingSet}
    /\ Cardinality(Written) = Cardinality(ListingSet)
    /\ Reports = Written

\* C1 as stated: for every input directory whose listing holds N >= 1
\* readable, valid files, with a gateway that answers every call and a
\* renderer that never fails, the run ends complete with exactly N reports,
\* one per input at outputDir/X-summary.pdf.
C1_Original ==
    (RunOver /\ ListingSet # {} /\ AllValid /\ NoCallFailed)
        => (RunComplete /\ OneReportPerInput)

\* C1, amended: the same, provided the run also has a non-empty output
\* directory and the governor is available (LLM_GOVERNOR_FUNCTION is set);
\* without them the run ends fatally before the listing is looked at.
C1_OneReportPerInput ==
    (/\ RunOver /\ ListingSet # {} /\ AllValid /\ NoCallFailed
     /\ cfg.outputDir # <<>> /\ env.LLM_GOVERNOR_FUNCTION # "")
        => (RunComplete /\ OneReportPerInput)

C1_Witness ==
    /\ RunComplete /\ Cardinality(ListingSet) = 3 /\ AllValid
    /\ Cardinality(Reports) = 3

\* The log.Fatal kinds of the per-file loop.
LoopFatals ==
    {"read", "invalid_json", "budget_exceeded", "model_not_allowed",
     "governor_error", "invoke_failed", "pdf"}

\* C2 as stated: once the run has stopped on a fatal condition at file k,
\* no file of this run, whole or truncated, exists for file k or for a
\* later file of the listing.
C2_NoFileFromFailedStep ==
    (pc = "exited" /\ fatal \in LoopFatals)
        => \A j \in idx..Len(jsonFiles) :
              PdfPath(cfg.outputDir, jsonFiles[j]) \notin Written

\* C3: a budget-exceeded answer for file k ends the process right there:
\* the Invoke is the run's last call, the fatal is the budget one, file k
\* has no output and no later file was read, sent or rendered.
C3_BudgetExceeded ==
    \A i \in CallsOf("Invoke") :
        calls[i].text = "budget_exceeded" /\ ~ calls[i].ok =>
            /\ i = Len(calls)
            /\ pc = "exited" /\ fatal = "budget_exceeded"
            /\ calls[i].file = jsonFiles[idx]
            /\ PdfPath(cfg.outputDir, jsonFiles[idx]) \notin Written
            /\ \A j \in (idx + 1)..Len(jsonFiles), c \in 1..Len(calls) :
                  /\ calls[c].file # jsonFiles[j]
                  /\ calls[c].file # PdfPath(cfg.outputDir, jsonFiles[j])
                  /\ PdfPath(cfg.outputDir, jsonFiles[j]) \notin Written

C3_Witness ==
    /\ fatal = "budget_exceeded" /\ idx = 2 /\ Len(jsonFiles) = 3
    /\ Cardinality(Reports) = 1

\* C4: an Invoke for file f comes after a successful Unmarshal of f's
\* bytes; a file that is not well-formed JSON is never sent, and its
\* failed Unmarshal is the run's last call, ending it with the validation
\* fatal.
C4_ValidatedBeforeInvoke ==
    /\ \A i \in CallsOf("Invoke") :
          /\ \E j \in 1..(i - 1) :
                /\ calls[j].op = "Unmarshal"
                /\ calls[j].file = calls[i].file
                /\ calls[j].ok
          /\ JSONValid(dir[Base(calls[i].file)].bytes)
    /\ \A i \in CallsOf("Unmarshal") :
          /\ calls[i].ok = JSONValid(dir[Base(calls[i].file)].bytes)
          /\ ~ calls[i].ok =>
                i = Len(calls) /\ pc = "exited" /\ fatal = "invalid_json"

C4_Witness ==
    /\ fatal = "invalid_json" /\ idx = 2
    /\ Cardinality(CallsOf("Invoke")) = 1
    /\ ~ JSONValid(dir[Base(jsonFiles[idx])].bytes)

\* The run was given an input directory and it holds no *.json entry.
NoJsonEntries ==
    /\ cfg.inputDir # <<>>
    /\ ~ BadPattern(cfg.inputDir)
    /\ ListingSet = {}

C6_Original ==
    (pc = "idle" /\ runs > 0) => env.EXECUTION_RUN_ID = InitialRunID

\* C6, amended: the environment is the one process-level state a run
\* changes, and only handleLambda changes it: it overwrites
\* EXECUTION_RUN_ID with its event's run id before the run and does not
\* restore it, so the value persists into the next invocation until that
\* one overwrites it.  During and after every event-mode run the variable,
\* and the run id the governor client read, are that run's own id; direct
\* mode leaves the environment as it was.
C6_RunIDOverwritten ==
    /\ [](mode = "event" /\ runs > 0 =>
            /\ env.EXECUTION_RUN_ID = event.ExecutionRunID
            /\ cfg.executionRunID = event.ExecutionRunID)
    /\ [](InLoop => gov.runID = cfg.executionRunID)
    /\ [](mode # "event" => env.EXECUTION_RUN_ID = InitialRunID)
    /\ [][env' # env =>
            /\ pc = "idle" /\ pc' = "run"
            /\ env' = [env EXCEPT !.EXECUTION_RUN_ID = event'.ExecutionRunID]]_vars

C6_Witness ==
    /\ runs = 2 /\ InLoop
    /\ env.EXECUTION_RUN_ID = "run-2" /\ gov.runID = "run-2"

\* What a run ends with, from its configuration, the governor function,
\* the input files and the collaborators' answers alone: the fatal kind,
\* "" for completion.
Outcome ==
    LET s == SetupFatal(cfg.inputDir, cfg.outputDir,
                        [function |-> env.LLM_GOVERNOR_FUNCTION, runID |-> ""],
                        Glob(cfg.inputDir))
        last == calls[Len(calls)]
    IN  IF s # "" THEN s
        ELSE IF last.ok THEN ""
        ELSE CASE last.op = "ReadFile" -> "read"
               [] last.op = "Unmarshal" -> "invalid_json"
               [] last.op = "Invoke" -> InvokeFatal(last.text)
               [] OTHER -> "pdf"

C8_Idempotent ==
    /\ [](pc = "render" =>
            ~ GeneratePDF(PdfPath(cfg.outputDir, jsonFiles[idx]),
                          BaseName(jsonFiles[idx]), summary, now, "ok").err)
    /\ [][(pc = "render" /\ pc' = "read") =>
            LET p == PdfPath(cfg.outputDir, jsonFiles[idx])
                title == BaseName(jsonFiles[idx])
            IN  /\ DOMAIN out' = DOMAIN out \cup {p}
                /\ out'[p].title = title
                /\ out'[p].body = summary
                /\ out'[p].whole
                /\ \A q \in DOMAIN out \ {p} : out'[q] = out[q]
                /\ (p \in DOMAIN out /\ out[p].whole
                        /\ out[p].title = title /\ out[p].body = summary)
                    => /\ DOMAIN out' = DOMAIN out
                       /\ out'[p].title = out[p].title
                       /\ out'[p].body = out[p].body]_vars

C8_Witness ==
    /\ runs = 2 /\ pc = "read"
    /\ LET last == calls[Len(calls)]
       IN  /\ last.op = "generatePDF" /\ last.ok
           /\ last.old = last.text
           /\ out[last.file].body = last.text
           /\ out[last.file].run = 2

\* The position in the listing of the file the i-th call, a ReadFile, read.
ReadNumber(i) == Cardinality({j \in CallsOf("ReadFile") : j <= i})

\* C9: a run sends each file to the gateway at most once, reads the files
\* in listing order, and reads file k+1 only right after the report of
\* file k has been written.
C9_Sequential ==
    /\ \A i, j \in CallsOf("Invoke") : calls[i].file = calls[j].file => i = j
    /\ \A i \in CallsOf("ReadFile") :
          LET k == ReadNumber(i)
          IN  /\ k <= Len(jsonFiles)
              /\ calls[i].file = jsonFiles[k]
              /\ k > 1 =>
                    /\ calls[i - 1].op = "generatePDF"
                    /\ calls[i - 1].ok
                    /\ calls[i - 1].file = PdfPath(cfg.outputDir, jsonFiles[k - 1])
                    /\ calls[i - 1].file \in Reports

C9_Witness ==
    /\ Cardinality(CallsOf("ReadFile")) = 3
    /\ Cardinality(CallsOf("Invoke")) = 3
    /\ ~ calls[Len(calls)].ok

\* The iterations of the loop the current run has finished.
Finished == IF idx = 0 THEN 0 ELSE idx - 1

\* C10: at every moment the whole reports of the current run are those of
\* the files before the current one, each holds the text a successful
\* Invoke for its file returned, the only other file the run may have
\* touched is a truncated one for the current file, and a fatal error at
\* file k leaves the k-1 earlier reports in place: between 0 and N-1.
C10_PrefixOfListing ==
    /\ Finished <= Len(jsonFiles)
    /\ Reports = {PdfPath(cfg.outputDir, jsonFiles[j]) : j \in 1..Finished}
    /\ Cardinality(Reports) = Finished
    /\ \A p \in Reports :
          \E i \in CallsOf("Invoke") :
             /\ calls[i].ok
             /\ PdfPath(cfg.outputDir, calls[i].file) = p
             /\ out[p].body = calls[i].text
    /\ \A p \in Written \ Reports :
          pc = "exited" /\ fatal = "pdf"
             /\ p = PdfPath(cfg.outputDir, jsonFiles[idx])
    /\ (fatal \in LoopFatals => Finished <= Len(jsonFiles) - 1)

C10_Witness ==
    /\ pc = "exited" /\ fatal \in LoopFatals
    /\ idx = 3 /\ Cardinality(Reports) = 2

====
